---- MODULE Spec2Model ----
(***************************************************************************)
(* Organoid Schedule Manager (src/organoid.py): the visit generator, the   *)
(* overlap detector, the start-date search and the schedule store.         *)
(*                                                                         *)
(* Dates.  A datetime.date is modelled by its proleptic Gregorian ordinal  *)
(* (date.toordinal()), so `date + timedelta(days=n)` is integer addition.  *)
(* A date string "YYYY-MM-DD" (strftime/strptime with "%Y-%m-%d") is       *)
(* modelled by the triple <<year, month, day>> of its three zero-padded    *)
(* fields; two such strings are equal exactly when the triples are.        *)
(***************************************************************************)
EXTENDS Integers, Sequences, FiniteSets, TLC

VARIABLES
    templates,          \* template store: name -> period list        (line 172)
    schedules,          \* schedule store: list of schedule records   (line 173)
    preview_schedule,   \* st.session_state.preview_schedule          (line 386)
    results,            \* the ranked candidates of the search run    (line 312)
    genPc,              \* position inside generate_visit_dates
    genStart,           \* its argument start_date
    genTemplate,        \* its argument template["schedule"]
    genIdx,             \* index of the period the for loop is at
    current_day,        \* its local current_day                      (line 109)
    genVisits,          \* its local visits                           (line 106)
    candCall,           \* last call of get_start_date_candidates: its arguments
    candResult,         \* ... and what it returned
    template_order,     \* the keys of the template store in dict order
    temp_schedule,      \* st.session_state.temp_schedule             (line 703)
    protocol_file,      \* organoid_protocols.json, None while missing
    protocol_message,   \* what the protocol page showed last (st.error/st.success)
    people,             \* people store: list of person names        (line 175)
    sessions            \* concurrent script runs: position and in-memory copy

vars == <<templates, schedules, preview_schedule, results, genPc, genStart,
          genTemplate, genIdx, current_day, genVisits, candCall, candResult,
          template_order, temp_schedule, protocol_file, protocol_message,
          people, sessions>>

storeVars == <<templates, schedules, preview_schedule, results>>
genVars == <<genPc, genStart, genTemplate, genIdx, current_day, genVisits>>
candVars == <<candCall, candResult>>
pageVars == <<template_order, temp_schedule, protocol_file, protocol_message,
             people, sessions>>

\* The concurrent sessions.  pc: "idle" between script runs, "loaded" after
\* the data load of a run; schedules: the run's in-memory list; committed:
\* the record the session's last finished run added or completed.
Sessions == {1, 2}
IdleSessions ==
    [ s \in Sessions |-> [pc |-> "idle", schedules |-> <<>>, committed |-> [none |-> TRUE]] ]

\* Python's None: where a dict may stand, and where a protocol day key may stand
None == [none |-> TRUE]
NoneKey == "None"

-----------------------------------------------------------------------------
(* Calendar arithmetic of datetime.date                                    *)

IsLeap(y) == (y % 4 = 0) /\ ((y % 100 # 0) \/ (y % 400 = 0))

DaysInMonth(y, m) ==
    IF m = 2 THEN (IF IsLeap(y) THEN 29 ELSE 28)
    ELSE IF m \in {4, 6, 9, 11} THEN 30 ELSE 31

DaysBeforeYear(y) ==
    LET p == y - 1 IN p * 365 + (p \div 4) - (p \div 100) + (p \div 400)

\* days of the year before the first of month m
DaysBeforeMonth(y, m) ==
    <<0, 31, 59, 90, 120, 151, 181, 212, 243, 273, 304, 334>>[m]
      + (IF m > 2 /\ IsLeap(y) THEN 1 ELSE 0)

\* datetime.strptime(s, "%Y-%m-%d").date(), as the ordinal of the date read
Strptime(s) == DaysBeforeYear(s[1]) + DaysBeforeMonth(s[1], s[2]) + s[3]

\* date.strftime("%Y-%m-%d"): the ordinal split into year, month and day
Strftime(d) ==
    LET n0   == d - 1
        n400 == n0 \div 146097
        r400 == n0 % 146097
        n100 == r400 \div 36524
        r100 == r400 % 36524
        n4   == r100 \div 1461
        r4   == r100 % 1461
        n1   == r4 \div 365
        r1   == r4 % 365
        y    == n400 * 400 + n100 * 100 + n4 * 4 + n1 + 1
    IN  IF n1 = 4 \/ n100 = 4
        THEN <<y - 1, 12, 31>>
        ELSE LET m == CHOOSE k \in 1..12 :
                        /\ DaysBeforeMonth(y, k) <= r1
                        /\ r1 < DaysBeforeMonth(y, k) + DaysInMonth(y, k)
             IN <<y, m, r1 - DaysBeforeMonth(y, m) + 1>>

\* date.weekday(): Monday is 0 and Sunday is 6
Weekday(d) == (d + 6) % 7

-----------------------------------------------------------------------------
(* Bounds and inputs                                                       *)

MaxDay == 2         \* day offsets of the small input periods are 0..MaxDay
MaxExtra == 2       \* visits a run may emit beyond any valid template's count
DateSpan == 7       \* start dates tried are BaseDate .. BaseDate+DateSpan-1
MaxWindow == 7      \* the largest search window tried

\* Friday 2028-02-25: the dates tried cross a weekend and a leap day
BaseDate == Strptime(<<2028, 2, 25>>)
StartDates == BaseDate .. (BaseDate + DateSpan - 1)

Period(s, e, i) == [start_day |-> s, end_day |-> e, interval |-> i]

DEFAULT_ORGANOID_TEMPLATE ==
    << Period(0, 6, 1), Period(7, 15, 1), Period(16, 24, 2),
       Period(25, 42, 2), Period(43, 150, 4) >>

\* Periods given to generate_visit_dates as a function: the intervals
\* include 0 and a negative one, the ranges include end_day < start_day.
Intervals == -1 .. 2
InputPeriods ==
    { Period(s, e, i) : s \in 0..MaxDay, e \in 0..MaxDay, i \in Intervals }
InputTemplates ==
    {DEFAULT_ORGANOID_TEMPLATE}
      \cup { <<p>> : p \in InputPeriods }
      \cup { <<p, q>> : p \in InputPeriods, q \in InputPeriods }

-----------------------------------------------------------------------------
(* generate_visit_dates                                                    *)

IsWeekendGE6(d) == Weekday(d) >= 6
\* visit_date.weekday() >= 5
IsWeekend(d) == Weekday(d) >= 5

\* start_date + timedelta(days=current_day)
VisitDate(start_date, day) == start_date + day

\* the dict appended at lines 112-119
NewVisit(start_date, day) ==
    LET visit_date == VisitDate(start_date, day)
    IN [ day |-> day,
         date |-> visit_date,
         is_weekend |-> IsWeekend(visit_date),
         selected_protocol |-> NoneKey,
         memo |-> "",
         assigned_people |-> <<>> ]

AppendVisitSorted(visits, v) ==
    LET k == Cardinality({ j \in 1..Len(visits) : visits[j].day <= v.day })
    IN SubSeq(visits, 1, k) \o <<v>> \o SubSeq(visits, k + 1, Len(visits))
\* visits.append({...})
AppendVisit(visits, v) == Append(visits, v)

WhileCondStrict(day, period) == day < period.end_day
\* while current_day <= period["end_day"]
WhileCond(day, period) == day <= period.end_day

\* The most visits a template of these day ranges emits when every interval
\* is >= 1, plus MaxExtra: a run is followed until it exceeds that.
RECURSIVE RangeSize(_)
RangeSize(tpl) ==
    IF tpl = <<>> THEN 0
    ELSE (LET p == Head(tpl)
          IN IF p.end_day >= p.start_day THEN p.end_day - p.start_day + 1 ELSE 0)
         + RangeSize(Tail(tpl))
VisitCap(tpl) == RangeSize(tpl) + MaxExtra

\* the call: visits = [] and the for loop reaches the first period
GenCall(start_date, tpl) ==
    /\ genPc = "idle"
    /\ candCall = None
    /\ genPc' = "for"
    /\ genStart' = start_date
    /\ genTemplate' = tpl
    /\ genIdx' = 1
    /\ current_day' = 0
    /\ genVisits' = <<>>
    /\ UNCHANGED <<storeVars, candVars, pageVars>>

\* for period in template["schedule"]: current_day = period["start_day"]
GenForNext ==
    /\ genPc = "for"
    /\ genIdx <= Len(genTemplate)
    /\ current_day' = genTemplate[genIdx].start_day
    /\ genPc' = "while"
    /\ UNCHANGED <<genStart, genTemplate, genIdx, genVisits, storeVars, candVars, pageVars>>

\* one iteration of the while body: append the visit, advance current_day
GenWhileBody ==
    /\ genPc = "while"
    /\ WhileCond(current_day, genTemplate[genIdx])
    /\ Len(genVisits) < VisitCap(genTemplate)
    /\ genVisits' = AppendVisit(genVisits, NewVisit(genStart, current_day))
    /\ current_day' = current_day + genTemplate[genIdx].interval
    /\ UNCHANGED <<genPc, genStart, genTemplate, genIdx, storeVars, candVars, pageVars>>

\* the while condition is false: the for loop moves to the next period
GenWhileExit ==
    /\ genPc = "while"
    /\ ~WhileCond(current_day, genTemplate[genIdx])
    /\ genIdx' = genIdx + 1
    /\ genPc' = "for"
    /\ UNCHANGED <<genStart, genTemplate, current_day, genVisits, storeVars, candVars, pageVars>>

\* the for loop is exhausted: return visits
GenReturn ==
    /\ genPc = "for"
    /\ genIdx > Len(genTemplate)
    /\ genPc' = "returned"
    /\ UNCHANGED <<genStart, genTemplate, genIdx, current_day, genVisits,
                   storeVars, candVars, pageVars>>

GenStep == GenForNext \/ GenWhileBody \/ GenWhileExit \/ GenReturn

\* generate_visit_dates as a function of its arguments, for the callers that
\* use its result.  It is the value the loop above returns when every
\* interval is >= 1 (checked as GenAgreesWithFunction below); with an interval
\* < 1 and start_day <= end_day the loop does not return and the function has
\* no value.  The while loop of one period runs Iterations(period) times.
Iterations(period) ==
    IF WhileCond(period.start_day, period)
    THEN (period.end_day - period.start_day) \div period.interval + 1
    ELSE 0

PeriodVisits(start_date, period) ==
    [ k \in 1..Iterations(period) |->
        NewVisit(start_date, period.start_day + (k - 1) * period.interval) ]

\* the periods from position i on, in stored order
RECURSIVE VisitsFrom(_, _, _)
VisitsFrom(start_date, tpl, i) ==
    IF i > Len(tpl) THEN <<>>
    ELSE PeriodVisits(start_date, tpl[i]) \o VisitsFrom(start_date, tpl, i + 1)

generate_visit_dates(start_date, tpl) == VisitsFrom(start_date, tpl, 1)

CountVisits(visits) == Len(visits)
\* sum(1 for v in visits if v["is_weekend"])
count_weekend_visits(visits) ==
    Cardinality({ i \in 1..Len(visits) : visits[i].is_weekend })

-----------------------------------------------------------------------------
(* get_start_date_candidates                                               *)

\* for i in range(days_range): candidates.append(base_date + timedelta(days=i))
get_start_date_candidates(base_date, days_range) ==
    [ i \in 1..days_range |-> base_date + (i - 1) ]

\* a call of the function with any integer days_range
CallCandidates(base_date, days_range) ==
    /\ genPc = "idle"
    /\ candCall = None
    /\ candCall' = [base_date |-> base_date, days_range |-> days_range]
    /\ candResult' = [outcome |-> "returned",
                      value |-> get_start_date_candidates(base_date, days_range)]
    /\ UNCHANGED <<storeVars, genVars, pageVars>>

\* the caller is done with the value a call returned and may call again
EngineReset ==
    /\ genPc = "returned" \/ candCall # None
    /\ genPc' = "idle"
    /\ genStart' = 0
    /\ genTemplate' = <<>>
    /\ genIdx' = 0
    /\ current_day' = 0
    /\ genVisits' = <<>>
    /\ candCall' = None
    /\ candResult' = None
    /\ UNCHANGED <<storeVars, pageVars>>

-----------------------------------------------------------------------------
(* find_overlaps                                                           *)

EmptyMap == [n \in {} |-> 0]

\* new_dates: the candidate's dates are date objects and are taken as they are
NewDates(new_visits) == { new_visits[i].date : i \in 1..Len(new_visits) }

\* schedule_dates: the stored date strings, parsed
ScheduleDates(schedule) ==
    { Strptime(schedule.visits[i].date) : i \in 1..Len(schedule.visits) }

SkipNone(schedule) == FALSE
\* if schedule.get("status") == "completed": continue
Skip(schedule) == schedule.status = "completed"

OverlapCountVisits(new_dates, schedule) ==
    Cardinality({ i \in 1..Len(schedule.visits) :
                    Strptime(schedule.visits[i].date) \in new_dates })
\* len(new_dates & schedule_dates)
OverlapCount(new_dates, schedule) ==
    Cardinality(new_dates \cap ScheduleDates(schedule))

\* the loop over existing_schedules from position i on, overlaps so far in acc
RECURSIVE OverlapsFrom(_, _, _, _)
OverlapsFromKeepsZero(new_dates, existing, i, acc) ==
    IF i > Len(existing) THEN acc
    ELSE LET schedule == existing[i]
             n == OverlapCount(new_dates, schedule)
         IN IF Skip(schedule)
            THEN OverlapsFrom(new_dates, existing, i + 1, acc)
            ELSE OverlapsFrom(new_dates, existing, i + 1,
                    [ k \in DOMAIN acc \cup {schedule.name} |->
                        IF k = schedule.name THEN n ELSE acc[k] ])
\* for schedule in existing_schedules: ... if overlap_dates: overlaps[name] = len(...)
OverlapsFrom(new_dates, existing, i, acc) ==
    IF i > Len(existing) THEN acc
    ELSE LET schedule == existing[i]
             n == OverlapCount(new_dates, schedule)
         IN IF Skip(schedule) \/ n = 0
            THEN OverlapsFrom(new_dates, existing, i + 1, acc)
            ELSE OverlapsFrom(new_dates, existing, i + 1,
                    [ k \in DOMAIN acc \cup {schedule.name} |->
                        IF k = schedule.name THEN n ELSE acc[k] ])

find_overlaps(new_visits, existing_schedules) ==
    OverlapsFrom(NewDates(new_visits), existing_schedules, 1, EmptyMap)

\* sum(overlaps.values())
RECURSIVE SumValues(_)
SumValues(m) ==
    IF DOMAIN m = {} THEN 0
    ELSE LET k == CHOOSE x \in DOMAIN m : TRUE
         IN m[k] + SumValues([ x \in DOMAIN m \ {k} |-> m[x] ])

-----------------------------------------------------------------------------
(* The stores and the inputs of the screens                                *)

MaxSchedules == 2   \* schedules kept in the store at once
ManualSpan == 2     \* dates tried as manual_start_date, from BaseDate on
SliderMin == 7      \* st.slider("...", 7, 30, 14)

\* a user template with overlapping day ranges: days 0,2,4 then 2,4,6
ShortTemplate == << Period(0, 4, 2), Period(2, 6, 2) >>

\* schedule_templates.json: the default template and one saved by the user
\* (name -> template["schedule"]; the description texts are display only)
InitialTemplates ==
    [ n \in {"Organoid", "Short"} |->
        IF n = "Organoid" THEN DEFAULT_ORGANOID_TEMPLATE ELSE ShortTemplate ]

LineNames == {"", "A", "B"}     \* st.text_input("라인 이름")
SearchNames == {"", "A"}        \* the search only tests the name for emptiness
ManualDates == BaseDate .. (BaseDate + ManualSpan - 1)   \* manual_start_date
SearchDates == {BaseDate}       \* search_start_date
SearchDays == SliderMin .. MaxWindow                     \* search_days

\* the visits as written into a schedule record (lines 359-366, 441-448)
StoredVisits(visits) ==
    [ i \in 1..Len(visits) |->
        [ day |-> visits[i].day,
          date |-> Strftime(visits[i].date),
          is_weekend |-> visits[i].is_weekend ] ]

\* active_schedules = [s for s in schedules if s.get("status") != "completed"]
active_schedules == SelectSeq(schedules, LAMBDA sch : sch.status # "completed")

\* schedules.index(schedule): the first position holding an equal record
IndexOf(schedule) ==
    CHOOSE j \in 1..Len(schedules) :
        /\ schedules[j] = schedule
        /\ \A k \in 1..(j - 1) : schedules[k] # schedule

-----------------------------------------------------------------------------
(* Schedule status screen: the buttons of one line (lines 236-245)         *)

CompleteReopensOthers(idx) ==
    /\ idx \in 1..Len(active_schedules)
    /\ LET j == IndexOf(active_schedules[idx])
       IN schedules' = [ k \in DOMAIN schedules |->
                           [schedules[k] EXCEPT
                              !.status = IF k = j THEN "completed" ELSE "active"] ]
    /\ results' = <<>>
    /\ UNCHANGED <<templates, preview_schedule, genVars, candVars, pageVars>>
\* "완료": schedules[schedules.index(schedule)]["status"] = "completed"
Complete(idx) ==
    /\ idx \in 1..Len(active_schedules)
    /\ LET j == IndexOf(active_schedules[idx])
       IN schedules' = [schedules EXCEPT ![j].status = "completed"]
    /\ results' = <<>>
    /\ UNCHANGED <<templates, preview_schedule, genVars, candVars, pageVars>>

Delete(idx) ==
    /\ idx \in 1..Len(active_schedules)
    /\ LET j == IndexOf(active_schedules[idx])
       IN schedules' = SubSeq(schedules, 1, j - 1)
                         \o SubSeq(schedules, j + 1, Len(schedules))
    /\ results' = <<>>
    /\ UNCHANGED <<templates, preview_schedule, genVars, candVars, pageVars>>

-----------------------------------------------------------------------------
(* New line, start-date search (lines 306-330)                             *)

SortKeyPlain(r) == <<r.weekend_count, r.overlap_total>>
\* key=lambda x: (x["weekend_count"], -x["overlap_total"])
SortKey(r) == <<r.weekend_count, -r.overlap_total>>

\* tuple comparison of two keys
KeyLess(a, b) == a[1] < b[1] \/ (a[1] = b[1] /\ a[2] < b[2])

InsertBeforeEqual(sorted, r) ==
    LET k == Cardinality({ j \in 1..Len(sorted) : KeyLess(SortKey(sorted[j]), SortKey(r)) })
    IN SubSeq(sorted, 1, k) \o <<r>> \o SubSeq(sorted, k + 1, Len(sorted))
\* list.sort is stable: r goes behind every element whose key is not greater
InsertStable(sorted, r) ==
    LET k == Cardinality({ j \in 1..Len(sorted) : ~KeyLess(SortKey(r), SortKey(sorted[j])) })
    IN SubSeq(sorted, 1, k) \o <<r>> \o SubSeq(sorted, k + 1, Len(sorted))

\* results.sort(key=...)
RECURSIVE SortFrom(_, _, _)
SortFrom(rs, i, sorted) ==
    IF i > Len(rs) THEN sorted
    ELSE SortFrom(rs, i + 1, InsertStable(sorted, rs[i]))
SortResults(rs) == SortFrom(rs, 1, <<>>)

\* one pass of the loop at lines 313-325
CandidateResult(candidate_date, tpl, existing) ==
    LET visits == generate_visit_dates(candidate_date, tpl)
        overlaps == find_overlaps(visits, existing)
    IN [ date |-> candidate_date,
         weekend_count |-> count_weekend_visits(visits),
         overlap_total |-> SumValues(overlaps),
         overlaps |-> overlaps,
         visits |-> visits ]

SearchResults(base_date, days_range, tpl, existing) ==
    LET candidates == get_start_date_candidates(base_date, days_range)
    IN SortResults([ i \in 1..Len(candidates) |->
                       CandidateResult(candidates[i], tpl, existing) ])

SearchPrunesStore(line_name, selected_template, search_start_date, search_days) ==
    /\ results' = IF line_name = "" THEN <<>>
                  ELSE SearchResults(search_start_date, search_days,
                                     templates[selected_template], schedules)
    /\ schedules' = active_schedules
    /\ UNCHANGED <<templates, preview_schedule, genVars, candVars, pageVars>>
\* "최적 시작일 찾기" (lines 306-330)
Search(line_name, selected_template, search_start_date, search_days) ==
    /\ results' = IF line_name = "" THEN <<>>
                  ELSE SearchResults(search_start_date, search_days,
                                     templates[selected_template], schedules)
    /\ UNCHANGED <<templates, schedules, preview_schedule, genVars, candVars, pageVars>>

ShownCandidates == 5    \* for i, result in enumerate(results[:5])

\* the new_schedule dict of lines 353-367 and 435-449
new_schedule(name, template, start_date, weekend_count, visits) ==
    [ name |-> name,
      template |-> template,
      start_date |-> Strftime(start_date),
      status |-> "active",
      weekend_count |-> weekend_count,
      visits |-> StoredVisits(visits) ]

\* A click on the i-th "선택" button (line 351).  The button stands inside the
\* block of `st.button("최적 시작일 찾기")` (line 306).  The click starts a new
\* script run, and in that run the outer button, which was not the widget
\* clicked, returns False: the block is skipped, the "선택" button is not
\* reached and lines 352-373 do not run.  The candidates are no longer shown.
Select(i) ==
    /\ i \in 1..Len(results)
    /\ i <= ShownCandidates
    /\ results' = <<>>
    /\ UNCHANGED <<templates, schedules, preview_schedule, genVars, candVars, pageVars>>

-----------------------------------------------------------------------------
(* New line, manual date (lines 383-461)                                   *)

ManualPreview(line_name, selected_template, manual_start_date) ==
    /\ preview_schedule' =
         IF line_name = "" THEN preview_schedule
         ELSE LET visits == generate_visit_dates(manual_start_date,
                                                 templates[selected_template])
                  overlaps == find_overlaps(visits, schedules)
              IN [ line_name |-> line_name,
                   template |-> selected_template,
                   start_date |-> manual_start_date,
                   visits |-> visits,
                   weekend_count |-> count_weekend_visits(visits),
                   overlaps |-> overlaps,
                   overlap_total |-> SumValues(overlaps) ]
    /\ results' = <<>>
    /\ UNCHANGED <<templates, schedules, genVars, candVars, pageVars>>

ConfirmKeepsPreview ==
    /\ preview_schedule # None
    /\ Len(schedules) < MaxSchedules
    /\ schedules' = Append(schedules,
         new_schedule(preview_schedule.line_name, preview_schedule.template,
                      preview_schedule.start_date, preview_schedule.weekend_count,
                      preview_schedule.visits))
    /\ results' = <<>>
    /\ UNCHANGED <<templates, preview_schedule, genVars, candVars, pageVars>>
\* "✅ 확인 및 추가" (lines 434-456)
ConfirmManual ==
    /\ preview_schedule # None
    /\ Len(schedules) < MaxSchedules
    /\ schedules' = Append(schedules,
         [ name |-> preview_schedule.line_name,
           template |-> preview_schedule.template,
           start_date |-> Strftime(preview_schedule.start_date),
           status |-> "active",
           weekend_count |-> preview_schedule.weekend_count,
           visits |-> StoredVisits(preview_schedule.visits) ])
    /\ preview_schedule' = None
    /\ results' = <<>>
    /\ UNCHANGED <<templates, genVars, candVars, pageVars>>

CancelManual ==
    /\ preview_schedule # None
    /\ preview_schedule' = None
    /\ results' = <<>>
    /\ UNCHANGED <<templates, schedules, genVars, candVars, pageVars>>

-----------------------------------------------------------------------------
(* Protocol store and protocol page (lines 27-40, 64-79, 464-549)          *)
(*                                                                         *)
(* A dict key is the int n, IntKey(n), or the decimal string of n,         *)
(* StrKey(n); the two are different keys of a Python dict.  A dict is the  *)
(* list of its items in insertion order.                                   *)

IntKey(n) == [int |-> n]
StrKey(n) == [str |-> n]
IsStr(k) == "str" \in DOMAIN k

\* str(k) and int(k)
StrOf(k) == IF IsStr(k) THEN k ELSE StrKey(k.int)
IntOf(k) == IF IsStr(k) THEN k.str ELSE k.int

Item(k, title, protocol) == [key |-> k, title |-> title, protocol |-> protocol]

\* key in d
HasKey(d, k) == \E i \in DOMAIN d : d[i].key = k

\* d[k] = {"title": ..., "protocol": ...}: in place for a key d holds, else at the end
DictSet(d, k, title, protocol) ==
    IF HasKey(d, k)
    THEN [ i \in DOMAIN d |-> IF d[i].key = k THEN Item(k, title, protocol) ELSE d[i] ]
    ELSE Append(d, Item(k, title, protocol))

\* del d[k]
DictDel(d, k) == SelectSeq(d, LAMBDA it : it.key # k)

DEFAULT_ORGANOID_PROTOCOLS ==
    << Item(IntKey(0), "Day 0", "seeding"),
       Item(IntKey(3), "Day 3", "medium change"),
       Item(IntKey(7), "Day 7", "passage") >>

\* json.dump then json.load of one dict: every key becomes its string, and of
\* two items with the same string the later value stands at the earlier place
RECURSIVE JsonItems(_, _, _)
JsonItems(d, i, acc) ==
    IF i > Len(d) THEN acc
    ELSE JsonItems(d, i + 1, DictSet(acc, StrOf(d[i].key), d[i].title, d[i].protocol))

\* the file save_protocols writes, as json.load reads it back
json_protocols(protocols) ==
    [ t \in DOMAIN protocols |-> JsonItems(protocols[t], 1, <<>>) ]

\* load_protocols with `file` on disk: the dict it returns ...
Loaded(file) ==
    IF file # None THEN file
    ELSE [ t \in {"Organoid"} |-> DEFAULT_ORGANOID_PROTOCOLS ]
load_protocols == Loaded(protocol_file)

\* ... and the file it leaves (written when there was none)
FileAfterLoad == json_protocols(load_protocols)

\* if selected_protocol_template not in protocols: protocols[...] = {}
PageProtocols(t) ==
    LET loaded == load_protocols
    IN [ n \in DOMAIN loaded \cup {t} |-> IF n \in DOMAIN loaded THEN loaded[n] ELSE <<>> ]

\* tab1 at `day` of sorted_days: protocols[t][str(day)] raises KeyError
LookupFails(d, day) == ~HasKey(d, StrKey(day))

\* the script run dies in tab1 before the widgets of `day` are reached
DiesBefore(d, day) ==
    \E i \in DOMAIN d : IntOf(d[i].key) < day /\ LookupFails(d, IntOf(d[i].key))

\* the script run dies somewhere in tab1, so that tab2 is not reached
DiesInTab1(d) == \E i \in DOMAIN d : LookupFails(d, IntOf(d[i].key))

\* st.error / st.success of the protocol page; `day` is the Day the text names
Message(kind, day) == [kind |-> kind, day |-> day]
NoMessage == Message("", 0)

\* inputs of the protocol page
ProtocolDays == {0, 3, 7}       \* new_day: the days the default protocols use
NewTitles == {"", "T"}          \* new_title of tab2
EditTitles == {"T"}             \* new_title of tab1
NewText == "text"               \* new_protocol

\* what the other variables keep while the protocol page runs
ProtocolFrame ==
    UNCHANGED <<storeVars, genVars, candVars, template_order, temp_schedule,
                people, sessions>>

\* tab1, "💾 저장" of `day` (lines 508-515)
SaveProtocol(t, day, new_title) ==
    LET protocols == PageProtocols(t)
        d == protocols[t]
    IN /\ \E i \in DOMAIN d : IntOf(d[i].key) = day
       /\ ~DiesBefore(d, day)
       /\ ~LookupFails(d, day)
       /\ protocol_file' = json_protocols(
             [protocols EXCEPT ![t] = DictSet(d, StrKey(day), new_title, NewText)])
       /\ protocol_message' = Message("saved", 0)
       /\ ProtocolFrame

\* tab1, "🗑️ 삭제" of `day` (lines 517-522)
DeleteProtocol(t, day) ==
    LET protocols == PageProtocols(t)
        d == protocols[t]
    IN /\ \E i \in DOMAIN d : IntOf(d[i].key) = day
       /\ ~DiesBefore(d, day)
       /\ ~LookupFails(d, day)
       /\ protocol_file' = json_protocols(
             [protocols EXCEPT ![t] = DictDel(d, StrKey(day))])
       /\ protocol_message' = Message("deleted", 0)
       /\ ProtocolFrame

AddLooksUpInt(d, new_day) == HasKey(d, IntKey(new_day))
\* str(new_day) in protocols[selected_protocol_template]
AddLooksUp(d, new_day) == HasKey(d, StrOf(IntKey(new_day)))

\* tab2, "➕ 프로토콜 추가" (lines 537-549)
AddProtocol(t, new_day, new_title) ==
    LET protocols == PageProtocols(t)
        d == protocols[t]
    IN /\ ~DiesInTab1(d)
       /\ IF new_title = ""
          THEN /\ protocol_message' = Message("no title", 0)
               /\ protocol_file' = FileAfterLoad
          ELSE IF AddLooksUp(d, new_day)
          THEN /\ protocol_message' = Message("exists", new_day)
               /\ protocol_file' = FileAfterLoad
          ELSE /\ protocol_message' = Message("added", new_day)
               /\ protocol_file' = json_protocols(
                     [protocols EXCEPT
                        ![t] = DictSet(d, StrOf(IntKey(new_day)), new_title, NewText)])
       /\ ProtocolFrame

\* a run of the protocol page that ends in tab1 with KeyError (line 490)
ProtocolPageDies(t) ==
    /\ DiesInTab1(PageProtocols(t)[t])
    /\ protocol_file' = FileAfterLoad
    /\ protocol_message' = Message("KeyError", 0)
    /\ ProtocolFrame

\* a run of any other page while there is no protocol file (line 174)
OtherPageRun ==
    /\ protocol_file = None
    /\ protocol_file' = FileAfterLoad
    /\ UNCHANGED protocol_message
    /\ ProtocolFrame

-----------------------------------------------------------------------------
(* Template page (lines 667-745)                                           *)

MaxFormDay == 1         \* start_day and end_day are tried from 0 to this
MaxFormInterval == 2    \* interval is tried from 1 to this
MaxPeriods == 2         \* periods collected in temp_schedule at once

FormStartDays == 0 .. MaxFormDay        \* st.number_input("시작 Day", min_value=0)
FormEndDays == 0 .. MaxFormDay          \* st.number_input("종료 Day", min_value=0)
FormIntervals == 1 .. MaxFormInterval   \* st.number_input("방문 간격 (일)", min_value=1)
TemplateNames == {"", "Organoid", "T1"} \* new_template_name

\* tab1 of one template: sample_visits[-1] raises IndexError on an empty list
PreviewFails(tpl) == Len(generate_visit_dates(BaseDate, tpl)) = 0

\* the position of a key in the dict order
OrderOf(name) == CHOOSE i \in DOMAIN template_order : template_order[i] = name

\* the script run dies in tab1 before the delete button of `name` is reached
DiesUpTo(name) ==
    \E i \in 1..OrderOf(name) : PreviewFails(templates[template_order[i]])

\* the script run dies somewhere in tab1, so that tab2 is not reached
TemplatePageDies ==
    \E i \in DOMAIN template_order : PreviewFails(templates[template_order[i]])

\* what the other variables keep while the template page runs
TemplateFrame ==
    UNCHANGED <<schedules, preview_schedule, results, genVars, candVars,
                protocol_file, protocol_message, people, sessions>>

\* tab1, "삭제" of a template (lines 687-691)
DeleteTemplate(name) ==
    /\ name \in DOMAIN templates
    /\ name # "Organoid"
    /\ ~DiesUpTo(name)
    /\ templates' = [ n \in DOMAIN templates \ {name} |-> templates[n] ]
    /\ template_order' = SelectSeq(template_order, LAMBDA n : n # name)
    /\ UNCHANGED temp_schedule
    /\ TemplateFrame

\* tab2, "기간 추가" (lines 712-719)
AddPeriod(start_day, end_day, interval) ==
    /\ ~TemplatePageDies
    /\ Len(temp_schedule) < MaxPeriods
    /\ temp_schedule' = Append(temp_schedule, Period(start_day, end_day, interval))
    /\ UNCHANGED <<templates, template_order>>
    /\ TemplateFrame

\* tab2, "삭제" of the i-th collected period (lines 727-729)
RemovePeriod(i) ==
    /\ ~TemplatePageDies
    /\ i \in DOMAIN temp_schedule
    /\ temp_schedule' = SubSeq(temp_schedule, 1, i - 1)
                          \o SubSeq(temp_schedule, i + 1, Len(temp_schedule))
    /\ UNCHANGED <<templates, template_order>>
    /\ TemplateFrame

\* tab2, "템플릿 저장" (lines 731-745)
SaveTemplate(new_template_name) ==
    /\ ~TemplatePageDies
    /\ temp_schedule # <<>>
    /\ IF new_template_name = "" \/ new_template_name \in DOMAIN templates
       THEN UNCHANGED <<templates, template_order, temp_schedule>>
       ELSE /\ templates' = [ n \in DOMAIN templates \cup {new_template_name} |->
                               IF n = new_template_name THEN temp_schedule
                               ELSE templates[n] ]
            /\ template_order' = Append(template_order, new_template_name)
            /\ temp_schedule' = <<>>
    /\ TemplateFrame

-----------------------------------------------------------------------------
(* People page, "인원 추가" (lines 594-608)                                 *)

PersonNames == {"", "P"}    \* new_person_name

AddPerson(new_person_name) ==
    /\ people' = IF new_person_name = ""
                    \/ \E i \in DOMAIN people : people[i] = new_person_name
                 THEN people
                 ELSE Append(people, new_person_name)
    /\ results' = <<>>
    /\ UNCHANGED <<templates, schedules, preview_schedule, genVars, candVars,
                   template_order, temp_schedule, protocol_file, protocol_message,
                   sessions>>

-----------------------------------------------------------------------------
(* Calendar page (lines 748-1014)                                          *)

\* a template of two visits, days 0 and 2, saved by the user
MiniTemplate == << Period(0, 2, 2) >>

CalendarTemplates ==
    [ n \in {"Organoid", "Mini"} |->
        IF n = "Organoid" THEN DEFAULT_ORGANOID_TEMPLATE ELSE MiniTemplate ]

\* the protocol file after one protocol was added for day 0 of Mini
CalendarProtocols ==
    json_protocols([ t \in {"Organoid", "Mini"} |->
        IF t = "Organoid" THEN DEFAULT_ORGANOID_PROTOCOLS
        ELSE << Item(StrKey(0), "T", NewText) >> ])

\* a line as confirm_manual stores it (lines 393-395, 435-452)
CalendarLine(name) ==
    LET visits == generate_visit_dates(BaseDate, MiniTemplate)
    IN new_schedule(name, "Mini", BaseDate, count_weekend_visits(visits), visits)

\* schedules_data.json after lines A and B were added
CalendarStore == << CalendarLine("A"), CalendarLine("B") >>

CalendarYears == {2028}             \* selected_year, from range(2024, 2030)
CalendarMonths == {2, 3}            \* selected_month
Memos == {"memo"}                   \* the memo text area

MonthOf(d) == Strftime(d)[2]
first_day(y, m) == Strptime(<<y, m, 1>>)
last_day(y, m) ==
    IF m = 12 THEN Strptime(<<y + 1, 1, 1>>) - 1 ELSE Strptime(<<y, m + 1, 1>>) - 1
calendar_start(y, m) == first_day(y, m) - Weekday(first_day(y, m))

\* the Mondays the while loop of lines 858-1019 draws a week for, from current_date on
RECURSIVE WeeksFrom(_, _, _)
WeeksFrom(current_date, y, m) ==
    IF ~(current_date <= last_day(y, m) + 7) THEN {}
    ELSE LET next == current_date + 7
         IN {current_date} \cup
            (IF MonthOf(next) # m /\ next > last_day(y, m) THEN {}
             ELSE WeeksFrom(next, y, m))

\* the visit of this date is in calendar_data and its expander is drawn
Rendered(y, m, visit_date) ==
    /\ calendar_start(y, m) <= visit_date
    /\ visit_date <= last_day(y, m) + 7
    /\ \E w \in WeeksFrom(calendar_start(y, m), y, m) : visit_date \in w .. (w + 6)

\* protocol_days: None and the day keys of the template's protocols
ProtocolChoices(template_name) ==
    {None} \cup
    (IF template_name \in DOMAIN load_protocols
     THEN { load_protocols[template_name][i].key :
               i \in DOMAIN load_protocols[template_name] }
     ELSE {})

\* what the multiselect can return, and [] without registered people
PeopleChoices ==
    LET names == { people[i] : i \in DOMAIN people }
    IN { sq \in UNION { [1..n -> names] : n \in 0..Len(people) } :
           \A i, j \in DOMAIN sq : i # j => sq[i] # sq[j] }

\* the visit dict after lines 1009-1011
Edited(visit, key, memo, names) ==
    [ day |-> visit.day,
      date |-> visit.date,
      is_weekend |-> visit.is_weekend,
      selected_protocol |-> key,
      memo |-> memo,
      assigned_people |-> names ]

WriteAt(pos, visit_idx, key, memo, names) ==
    [schedules EXCEPT ![pos].visits[visit_idx] = Edited(@, key, memo, names)]

\* "💾 저장" in the expander of the visit that calendar_data lists with
\* schedule_idx (its position in active_schedules) and visit_idx
SaveEdit(schedule_idx, visit_idx, y, m, key, memo, names) ==
    /\ schedule_idx \in 1..Len(active_schedules)
    /\ visit_idx \in DOMAIN active_schedules[schedule_idx].visits
    /\ key \in ProtocolChoices(active_schedules[schedule_idx].template)
    /\ names \in PeopleChoices
    /\ Rendered(y, m, Strptime(active_schedules[schedule_idx].visits[visit_idx].date))
    /\ schedules' =
         IF visit_idx \in DOMAIN schedules[schedule_idx].visits
         THEN WriteAt(schedule_idx, visit_idx, key, memo, names)
         ELSE schedules      \* IndexError at line 1009
    /\ results' = <<>>
    /\ UNCHANGED <<templates, preview_schedule, genVars, candVars, pageVars>>

-----------------------------------------------------------------------------
(* People page, "인원 목록" and "랜덤 배정" (lines 559-584, 610-664)          *)

AssignSpan == 2                     \* days after BaseDate the date inputs reach
AssignNames == {"", "P", "Q"}       \* new_person_name
AssignDates == BaseDate .. (BaseDate + AssignSpan)   \* assign_start, assign_end

\* "🗑️ 삭제" of the idx-th person: people.pop(idx)
DeletePerson(idx) ==
    /\ idx \in DOMAIN people
    /\ people' = SubSeq(people, 1, idx - 1) \o SubSeq(people, idx + 1, Len(people))
    /\ results' = <<>>
    /\ UNCHANGED <<templates, schedules, preview_schedule, genVars, candVars,
                   template_order, temp_schedule, protocol_file, protocol_message,
                   sessions>>

UnassignedAlways(visit) == TRUE
\* not (visit.get('assigned_people') and len(visit.get('assigned_people', [])) > 0)
Unassigned(visit) ==
    \/ "assigned_people" \notin DOMAIN visit
    \/ Len(visit.assigned_people) = 0

\* assign_start <= visit_date <= assign_end
InAssignRange(visit, assign_start, assign_end) ==
    LET visit_date == Strptime(visit.date)
    IN assign_start <= visit_date /\ visit_date <= assign_end

\* what random.sample(people, k) can return, as [p['name'] for p in ...]:
\* k positions of the list, no position twice, in any order
random_sample(k) ==
    { [ i \in 1..k |-> people[pos[i]] ] :
        pos \in { q \in [1..k -> DOMAIN people] :
                    \A i, j \in 1..k : i # j => q[i] # q[j] } }

\* min(2, len(people))
SampleSize == IF Len(people) < 2 THEN Len(people) ELSE 2

\* visit['assigned_people'] = names: the key is set, the others stay
WithPeople(visit, names) ==
    [ f \in DOMAIN visit \cup {"assigned_people"} |->
        IF f = "assigned_people" THEN names ELSE visit[f] ]

\* the (schedule, visit) positions the loops of lines 644-656 draw a sample for
SampledPositions(assign_start, assign_end) ==
    { ps \in { <<i, j>> : i \in DOMAIN schedules, j \in 1..Len(MiniTemplate) + 1 } :
        /\ schedules[ps[1]].status # "completed"
        /\ ps[2] \in DOMAIN schedules[ps[1]].visits
        /\ InAssignRange(schedules[ps[1]].visits[ps[2]], assign_start, assign_end)
        /\ Unassigned(schedules[ps[1]].visits[ps[2]]) }

\* the store after the two loops of lines 644-656, picks the samples drawn;
\* the dicts of active_schedules are the dicts of schedules, so the list
\* saved has them
Assigned(assign_start, assign_end, picks) ==
    [ i \in DOMAIN schedules |->
        IF schedules[i].status = "completed" THEN schedules[i]
        ELSE [ schedules[i] EXCEPT !.visits =
                 [ j \in DOMAIN schedules[i].visits |->
                     LET visit == schedules[i].visits[j]
                     IN IF <<i, j>> \in DOMAIN picks
                        THEN WithPeople(visit, picks[<<i, j>>])
                        ELSE visit ] ] ]

\* "🎲 랜덤 배정 시작": drawn with two people or more and an active line
RandomAssign(assign_start, assign_end) ==
    /\ Len(people) >= 2
    /\ Len(active_schedules) > 0
    /\ \E picks \in [SampledPositions(assign_start, assign_end) ->
                         random_sample(SampleSize)] :
          schedules' = Assigned(assign_start, assign_end, picks)
    /\ results' = <<>>
    /\ UNCHANGED <<templates, preview_schedule, genVars, candVars, pageVars>>

-----------------------------------------------------------------------------
(* Script runs of concurrent sessions (lines 92-102, 171-175)              *)
(*                                                                         *)
(* Streamlit runs the script of every browser session in a thread of its   *)
(* own.  A run reads the whole list at line 173, a button handler changes  *)
(* the run's list and writes the whole list back.                          *)

SessionNames == {"A", "B"}      \* line_name of the lines the sessions add

Range(seq) == { seq[i] : i \in DOMAIN seq }

SaveKeepsOthers(collection) ==
    collection \o SelectSeq(schedules, LAMBDA r : r \notin Range(collection))
\* save_schedules: json.dump(schedules, f) over the file opened with 'w'
save_schedules(collection) == collection

\* [s for s in schedules if s.get("status") != "completed"] of a run's list
ActiveOf(list) == SelectSeq(list, LAMBDA sch : sch.status # "completed")

\* list.index(schedule)
IndexIn(list, schedule) ==
    CHOOSE j \in 1..Len(list) :
        /\ list[j] = schedule
        /\ \A k \in 1..(j - 1) : list[k] # schedule

\* the line confirm_manual builds from the preview of the session
SessionLine(name) ==
    LET visits == generate_visit_dates(BaseDate, templates["Short"])
    IN new_schedule(name, "Short", BaseDate, count_weekend_visits(visits), visits)

SessionFrame ==
    UNCHANGED <<templates, preview_schedule, results, genVars, candVars,
                template_order, temp_schedule, protocol_file, protocol_message,
                people>>

\* schedules = load_schedules() at the start of a run (line 173)
SessionLoad(s) ==
    /\ sessions[s].pc = "idle"
    /\ sessions' = [sessions EXCEPT ![s].pc = "loaded", ![s].schedules = schedules]
    /\ UNCHANGED schedules
    /\ SessionFrame

\* the run goes on into confirm_manual (lines 451-452)
SessionConfirm(s, name) ==
    /\ sessions[s].pc = "loaded"
    /\ Len(sessions[s].schedules) < MaxSchedules
    /\ LET line == SessionLine(name)
           list == Append(sessions[s].schedules, line)
       IN /\ schedules' = save_schedules(list)
          /\ sessions' = [sessions EXCEPT ![s] =
                            [pc |-> "idle", schedules |-> <<>>, committed |-> line]]
    /\ SessionFrame

\* the run goes on into the complete button (lines 237-240)
SessionComplete(s, idx) ==
    /\ sessions[s].pc = "loaded"
    /\ idx \in 1..Len(ActiveOf(sessions[s].schedules))
    /\ LET mine == sessions[s].schedules
           j == IndexIn(mine, ActiveOf(mine)[idx])
           list == [mine EXCEPT ![j].status = "completed"]
       IN /\ schedules' = save_schedules(list)
          /\ sessions' = [sessions EXCEPT ![s] =
                            [pc |-> "idle", schedules |-> <<>>, committed |-> list[j]]]
    /\ SessionFrame

\* the run ends without a button pressed
SessionIdle(s) ==
    /\ sessions[s].pc = "loaded"
    /\ sessions' = [sessions EXCEPT ![s].pc = "idle", ![s].schedules = <<>>]
    /\ UNCHANGED schedules
    /\ SessionFrame

-----------------------------------------------------------------------------
(* Specifications                                                          *)

\* nothing running, no session state, nobody registered
Fresh ==
    /\ preview_schedule = None
    /\ results = <<>>
    /\ genPc = "idle"
    /\ genStart = 0
    /\ genTemplate = <<>>
    /\ genIdx = 0
    /\ current_day = 0
    /\ genVisits = <<>>
    /\ candCall = None
    /\ candResult = None
    /\ temp_schedule = <<>>
    /\ protocol_message = NoMessage
    /\ people = <<>>
    /\ sessions = IdleSessions

\* the protocol file as the first run of the application left it
Init ==
    /\ Fresh
    /\ schedules = <<>>
    /\ templates = InitialTemplates
    /\ template_order = <<"Organoid", "Short">>
    /\ protocol_file = json_protocols([ t \in {"Organoid"} |-> DEFAULT_ORGANOID_PROTOCOLS ])

\* the application: one user action per step
Next ==
    \/ \E idx \in 1..MaxSchedules : Complete(idx)
    \/ \E idx \in 1..MaxSchedules : Delete(idx)
    \/ \E n \in SearchNames, t \in DOMAIN templates, d \in SearchDates, w \in SearchDays :
          Search(n, t, d, w)
    \/ \E i \in 1..ShownCandidates : Select(i)
    \/ \E n \in LineNames, t \in DOMAIN templates, d \in ManualDates :
          ManualPreview(n, t, d)
    \/ ConfirmManual
    \/ CancelManual

Spec == Init /\ [][Next]_vars

\* the engine's functions called one at a time, generate_visit_dates step by step
EngineNext ==
    \/ /\ genPc = "idle"
       /\ \E d \in StartDates, tpl \in InputTemplates : GenCall(d, tpl)
    \/ GenForNext
    \/ GenWhileBody
    \/ GenWhileExit
    \/ GenReturn
    \/ \E d \in StartDates, w \in (-1)..MaxWindow : CallCandidates(d, w)
    \/ EngineReset

EngineSpec == Init /\ [][EngineNext]_vars

\* a running call keeps running
FairEngineSpec == EngineSpec /\ WF_vars(GenStep)

\* the protocol page, from a store with no protocol file
ProtocolInit ==
    /\ Fresh
    /\ schedules = <<>>
    /\ templates = InitialTemplates
    /\ template_order = <<"Organoid", "Short">>
    /\ protocol_file = None

ProtocolNext ==
    \/ \E t \in DOMAIN templates, day \in ProtocolDays, title \in EditTitles :
          SaveProtocol(t, day, title)
    \/ \E t \in DOMAIN templates, day \in ProtocolDays : DeleteProtocol(t, day)
    \/ \E t \in DOMAIN templates, day \in ProtocolDays, title \in NewTitles :
          AddProtocol(t, day, title)
    \/ \E t \in DOMAIN templates : ProtocolPageDies(t)
    \/ OtherPageRun

ProtocolSpec == ProtocolInit /\ [][ProtocolNext]_vars

\* the template page
TemplateNext ==
    \/ \E name \in TemplateNames \cup {"Short"} : DeleteTemplate(name)
    \/ \E s \in FormStartDays, e \in FormEndDays, i \in FormIntervals : AddPeriod(s, e, i)
    \/ \E i \in 1..MaxPeriods : RemovePeriod(i)
    \/ \E name \in TemplateNames : SaveTemplate(name)

TemplateSpec == Init /\ [][TemplateNext]_vars

\* the calendar page, two lines of the Mini template in the store
CalendarInit ==
    /\ Fresh
    /\ schedules = CalendarStore
    /\ templates = CalendarTemplates
    /\ template_order = <<"Organoid", "Mini">>
    /\ protocol_file = CalendarProtocols

CalendarNext ==
    \/ \E idx \in 1..MaxSchedules : Complete(idx)
    \/ \E name \in PersonNames : AddPerson(name)
    \/ \E si \in 1..MaxSchedules, vi \in 1..Len(MiniTemplate) + 1,
          y \in CalendarYears, m \in CalendarMonths,
          key \in {None} \cup {StrKey(d) : d \in ProtocolDays}, memo \in Memos,
          names \in {<<>>} \cup {<<n>> : n \in PersonNames} :
          SaveEdit(si, vi, y, m, key, memo, names)

CalendarSpec == CalendarInit /\ [][CalendarNext]_vars

\* two sessions, their script runs interleaved
SessionNext ==
    \/ \E s \in Sessions : SessionLoad(s)
    \/ \E s \in Sessions, name \in SessionNames : SessionConfirm(s, name)
    \/ \E s \in Sessions, idx \in 1..MaxSchedules : SessionComplete(s, idx)
    \/ \E s \in Sessions : SessionIdle(s)

SessionSpec == Init /\ [][SessionNext]_vars

\* the people page and the calendar, two lines of the Mini template in the store
AssignNext ==
    \/ \E name \in AssignNames : AddPerson(name)
    \/ \E idx \in 1..Cardinality(AssignNames) : DeletePerson(idx)
    \/ \E idx \in 1..MaxSchedules : Complete(idx)
    \/ \E si \in 1..MaxSchedules, memo \in Memos, names \in {<<>>, <<"P">>} :
          SaveEdit(si, 1, 2028, 2, None, memo, names)
    \/ \E assign_start \in AssignDates, assign_end \in AssignDates :
          RandomAssign(assign_start, assign_end)

AssignSpec == CalendarInit /\ [][AssignNext]_vars

\* manual_start_date of the lines followed from creation: a Friday, so that
\* day 2 is a Sunday, and the Monday after it, with no weekend visit
LifeDates == {BaseDate, BaseDate + 3}

\* an empty store, the Mini template saved, P and Q registered
LifeInit ==
    /\ preview_schedule = None
    /\ results = <<>>
    /\ genPc = "idle"
    /\ genStart = 0
    /\ genTemplate = <<>>
    /\ genIdx = 0
    /\ current_day = 0
    /\ genVisits = <<>>
    /\ candCall = None
    /\ candResult = None
    /\ temp_schedule = <<>>
    /\ protocol_message = NoMessage
    /\ people = <<"P", "Q">>
    /\ sessions = IdleSessions
    /\ schedules = <<>>
    /\ templates = CalendarTemplates
    /\ template_order = <<"Organoid", "Mini">>
    /\ protocol_file = CalendarProtocols

\* a line from its creation on: preview, confirm, calendar edit, random
\* assignment, completion
LifeNext ==
    \/ \E d \in LifeDates : ManualPreview("A", "Mini", d)
    \/ ConfirmManual
    \/ \E idx \in 1..MaxSchedules : Complete(idx)
    \/ \E si \in 1..MaxSchedules, memo \in Memos :
          SaveEdit(si, 1, 2028, 2, None, memo, <<"P">>)
    \/ \E assign_start \in AssignDates, assign_end \in AssignDates :
          RandomAssign(assign_start, assign_end)

LifeSpec == LifeInit /\ [][LifeNext]_vars

-----------------------------------------------------------------------------
(* Properties of generate_visit_dates and get_start_date_candidates        *)

ValidIntervals(tpl) == \A i \in DOMAIN tpl : tpl[i].interval >= 1
HasInvalidInterval(tpl) == \E i \in DOMAIN tpl : tpl[i].interval < 1
HasReversedPeriod(tpl) == \E i \in DOMAIN tpl : tpl[i].end_day < tpl[i].start_day

\* start_day, start_day+interval, ... up to end_day, as a set (interval >= 1)
PeriodOffsets(p) ==
    { d \in p.start_day .. p.end_day : (d - p.start_day) % p.interval = 0 }

Days(visits) == [ i \in DOMAIN visits |-> visits[i].day ]
DaySet(visits) == { visits[i].day : i \in DOMAIN visits }
MaxOf(S) == CHOOSE m \in S : \A x \in S : x <= m

\* every day offset is emitted once for each period whose offsets hold it
EmitsPeriodOffsets(visits, tpl) ==
    /\ \A d \in DaySet(visits) : \E i \in DOMAIN tpl : d \in PeriodOffsets(tpl[i])
    /\ \A i \in DOMAIN tpl : \A d \in PeriodOffsets(tpl[i]) :
          Cardinality({ k \in DOMAIN visits : visits[k].day = d })
            = Cardinality({ j \in DOMAIN tpl : d \in PeriodOffsets(tpl[j]) })

GenStarted == genPc = "for" /\ genIdx = 1
GenReturned == genPc = "returned"

\* the function form of generate_visit_dates is what the loop returns
GenAgreesWithFunction ==
    (GenReturned /\ ValidIntervals(genTemplate)) =>
        genVisits = generate_visit_dates(genStart, genTemplate)

\* C1 as stated: with every interval >= 1 the call returns, each period
\* contributes exactly its offsets start_day + k*interval <= end_day, and the
\* reference template yields 57 visits whose greatest day is 148.
C1_ReferenceMaxDay148 ==
    (GenReturned /\ ValidIntervals(genTemplate)) =>
        /\ EmitsPeriodOffsets(genVisits, genTemplate)
        /\ genTemplate = DEFAULT_ORGANOID_TEMPLATE =>
              (Len(genVisits) = 57 /\ MaxOf(DaySet(genVisits)) = 148)

C1_ReturnedOffsets ==
    (GenReturned /\ ValidIntervals(genTemplate)) =>
        /\ EmitsPeriodOffsets(genVisits, genTemplate)
        /\ genTemplate = DEFAULT_ORGANOID_TEMPLATE =>
              (Len(genVisits) = 57 /\ MaxOf(DaySet(genVisits)) = 147)

\* C1, amended: with every interval >= 1 a call of generate_visit_dates
\* returns, and what it returns holds, for each period, exactly the offsets
\* start_day + k*interval <= end_day; for the reference template that is 57
\* visits whose greatest day is 147 (43 + 4*26).
C1_TerminatesWithPeriodOffsets ==
    /\ []C1_ReturnedOffsets
    /\ (GenStarted /\ ValidIntervals(genTemplate)) ~> GenReturned

C1_Witness ==
    /\ GenReturned
    /\ genTemplate = DEFAULT_ORGANOID_TEMPLATE
    /\ Len(genVisits) = 57

\* C6: a call on a template holding a period with interval < 1 ends in
\* InvalidTemplate: it never returns a visit list, and its visit list never
\* grows past what the day ranges of the template can hold.
C6_InvalidIntervalRejected ==
    HasInvalidInterval(genTemplate) =>
        /\ ~GenReturned
        /\ Len(genVisits) <= RangeSize(genTemplate)

\* C7: a call on a template holding a period with end_day < start_day (its
\* intervals being >= 1) fails before any visit is emitted: no visit is ever
\* appended and no list is returned.
C7_ReversedPeriodRejected ==
    (HasReversedPeriod(genTemplate) /\ ValidIntervals(genTemplate)) =>
        (genVisits = <<>> /\ ~GenReturned)

\* C8: a call of get_start_date_candidates with days_range <= 0 is reported
\* as InvalidArgument instead of returning a candidate list.
C8_NonPositiveWindowRejected ==
    (candCall # None /\ candCall.days_range <= 0) =>
        candResult.outcome = "InvalidArgument"

\* Saturday 2028-02-26 and every seventh day from it, and the days after those
IsSaturdayOrSunday(d) == (d - Strptime(<<2028, 2, 26>>)) % 7 \in {0, 1}

\* C9: every visit emitted has date = start_date + day, is_weekend exactly
\* when that date is a Saturday or a Sunday, and visits of equal date carry
\* equal is_weekend.
C9_DateAndWeekendFlag ==
    \A i \in DOMAIN genVisits :
        /\ genVisits[i].date = genStart + genVisits[i].day
        /\ genVisits[i].is_weekend <=> IsSaturdayOrSunday(genVisits[i].date)
        /\ \A j \in DOMAIN genVisits :
              genVisits[i].date = genVisits[j].date =>
                  genVisits[i].is_weekend = genVisits[j].is_weekend

C9_Witness ==
    /\ GenReturned
    /\ \E i, j \in DOMAIN genVisits :
          /\ genVisits[i].is_weekend /\ Weekday(genVisits[i].date) = 5
          /\ genVisits[j].is_weekend /\ Weekday(genVisits[j].date) = 6
    /\ \E i \in DOMAIN genVisits : ~genVisits[i].is_weekend
    /\ \E i, j \in DOMAIN genVisits :
          i # j /\ genVisits[i].date = genVisits[j].date

\* the offsets of one period in ascending order
Progression(p) ==
    LET n == IF p.end_day >= p.start_day
             THEN (p.end_day - p.start_day) \div p.interval + 1 ELSE 0
    IN [ k \in 1..n |-> p.start_day + (k - 1) * p.interval ]

RECURSIVE ExpectedDays(_)
ExpectedDays(tpl) ==
    IF tpl = <<>> THEN <<>> ELSE Progression(Head(tpl)) \o ExpectedDays(Tail(tpl))

\* C10: the visits returned are the ascending per-period sequences joined in
\* the order of the periods, neither re-sorted nor de-duplicated.
C10_PeriodsConcatenatedInOrder ==
    (GenReturned /\ ValidIntervals(genTemplate)) =>
        Days(genVisits) = ExpectedDays(genTemplate)

C10_Witness ==
    /\ GenReturned
    /\ ValidIntervals(genTemplate)
    /\ \E i, j \in DOMAIN genVisits : i < j /\ genVisits[i].day = genVisits[j].day
    /\ \E i, j \in DOMAIN genVisits : i < j /\ genVisits[i].day > genVisits[j].day

-----------------------------------------------------------------------------
(* Properties of find_overlaps and of the ranked candidates                *)

\* the distinct date strings of a stored schedule
DateStrings(schedule) ==
    { schedule.visits[i].date : i \in DOMAIN schedule.visits }

\* the date strings a candidate's visits are stored under
CandidateStrings(visits) == { Strftime(visits[i].date) : i \in DOMAIN visits }

\* a stored schedule's visits as candidate visits: dates as date objects
AsCandidate(schedule) ==
    [ i \in DOMAIN schedule.visits |->
        [ day |-> schedule.visits[i].day,
          date |-> Strptime(schedule.visits[i].date),
          is_weekend |-> schedule.visits[i].is_weekend ] ]

\* the count a report gives for a name; a name it does not hold has none
Reported(overlaps, name) == IF name \in DOMAIN overlaps THEN overlaps[name] ELSE 0

NotCompleted(schedule) == schedule.status # "completed"

\* C2: for two schedules A and B of the store, neither completed,
\* find_overlaps with A's visits against [B] reports for B the number of
\* distinct calendar dates the two share, and with B's visits against [A] it
\* reports the same number for A.
C2_OverlapIsSharedDatesBothWays ==
    \A i, j \in DOMAIN schedules :
        (i # j /\ NotCompleted(schedules[i]) /\ NotCompleted(schedules[j])) =>
            LET A == schedules[i]
                B == schedules[j]
                n == Cardinality(DateStrings(A) \cap DateStrings(B))
                ab == find_overlaps(AsCandidate(A), <<B>>)
                ba == find_overlaps(AsCandidate(B), <<A>>)
            IN /\ DOMAIN ab \subseteq {B.name}
               /\ DOMAIN ba \subseteq {A.name}
               /\ Reported(ab, B.name) = n
               /\ Reported(ba, A.name) = n

\* two lines started on different days that share dates, one of them holding
\* a date twice, so that visits and dates count differently
C2_Witness ==
    \E i, j \in DOMAIN schedules :
        /\ i # j
        /\ NotCompleted(schedules[i]) /\ NotCompleted(schedules[j])
        /\ schedules[i].start_date # schedules[j].start_date
        /\ Len(schedules[j].visits) > Cardinality(DateStrings(schedules[j]))
        /\ LET n == Cardinality(DateStrings(schedules[i]) \cap DateStrings(schedules[j]))
           IN /\ n >= 1
              /\ n < Cardinality({ k \in DOMAIN schedules[j].visits :
                          schedules[j].visits[k].date \in DateStrings(schedules[i]) })
              /\ Reported(find_overlaps(AsCandidate(schedules[i]), <<schedules[j]>>),
                          schedules[j].name) = n

\* C3: a completed schedule never appears in a report of find_overlaps:
\* alone in the list it yields no entry, and every name a search result
\* reports is the name of a schedule that is not completed and shares a date
\* with the candidate.
C3_CompletedNeverReported ==
    \A k \in DOMAIN results :
        /\ \A i \in DOMAIN schedules :
              ~NotCompleted(schedules[i]) =>
                  find_overlaps(results[k].visits, <<schedules[i]>>) = EmptyMap
        /\ \A name \in DOMAIN results[k].overlaps :
              \E i \in DOMAIN schedules :
                  /\ schedules[i].name = name
                  /\ NotCompleted(schedules[i])
                  /\ DateStrings(schedules[i])
                        \cap CandidateStrings(results[k].visits) # {}

\* a search result whose dates collide with a completed line that is not reported
C3_Witness ==
    \E k \in DOMAIN results, i \in DOMAIN schedules :
        /\ schedules[i].status = "completed"
        /\ DateStrings(schedules[i]) \cap CandidateStrings(results[k].visits) # {}
        /\ schedules[i].name \notin DOMAIN results[k].overlaps
        /\ results[k].overlaps # EmptyMap

\* C4: the ranked candidates ascend by (weekend_count, -overlap_total): fewer
\* weekend visits first, and with equal weekend_count the larger
\* overlap_total first.
C4_RankedByWeekendThenOverlap ==
    \A i, j \in DOMAIN results :
        i < j =>
            \/ results[i].weekend_count < results[j].weekend_count
            \/ /\ results[i].weekend_count = results[j].weekend_count
               /\ results[i].overlap_total >= results[j].overlap_total

C4_Witness ==
    /\ \E i, j \in DOMAIN results :
          /\ i < j
          /\ results[i].weekend_count = results[j].weekend_count
          /\ results[i].overlap_total > results[j].overlap_total
          /\ results[i].date > results[j].date
    /\ \E i, j \in DOMAIN results :
          /\ i < j
          /\ results[i].weekend_count < results[j].weekend_count
          /\ results[i].overlap_total < results[j].overlap_total

\* C5: ranked candidates equal in weekend_count and in overlap_total stand in
\* increasing order of start date.
C5_TiesKeepDateOrder ==
    \A i, j \in DOMAIN results :
        ( /\ i < j
          /\ results[i].weekend_count = results[j].weekend_count
          /\ results[i].overlap_total = results[j].overlap_total )
            => results[i].date < results[j].date

C5_Witness ==
    /\ \E i, j \in DOMAIN results :
          /\ i < j
          /\ results[i].weekend_count = results[j].weekend_count
          /\ results[i].overlap_total = results[j].overlap_total
          /\ results[i].overlap_total > 0
    /\ \E i, j \in DOMAIN results : i < j /\ results[i].date > results[j].date

-----------------------------------------------------------------------------
(* Properties of the schedule store                                        *)

RemoveAt(seq, j) == SubSeq(seq, 1, j - 1) \o SubSeq(seq, j + 1, Len(seq))

StatusActiveOrCompleted ==
    \A i \in DOMAIN schedules : schedules[i].status \in {"active", "completed"}

\* what one step may do to the store: nothing, complete one active record,
\* append one active record, or remove one record
StoreStep ==
    \/ schedules' = schedules
    \/ \E j \in DOMAIN schedules :
          /\ schedules[j].status = "active"
          /\ schedules' = [schedules EXCEPT ![j].status = "completed"]
    \/ /\ Len(schedules') = Len(schedules) + 1
       /\ SubSeq(schedules', 1, Len(schedules)) = schedules
       /\ schedules'[Len(schedules')].status = "active"
    \/ \E j \in DOMAIN schedules : schedules' = RemoveAt(schedules, j)

\* C11: every schedule in the store is active or completed, and a step
\* changes a status only from active to completed: the records a step keeps
\* keep their status unless one active record becomes completed, and a
\* record a step adds is active.
C11_StatusOneWay == []StatusActiveOrCompleted /\ [][StoreStep]_vars

\* a line completed earlier still completed after a later line was added
C11_Witness ==
    \E i, j \in DOMAIN schedules :
        /\ i < j
        /\ schedules[i].status = "completed"
        /\ schedules[j].status = "active"

\* the schedule status page shows a delete button for the record at position j
DeleteOffered(j) ==
    \E idx \in 1..Len(active_schedules) : active_schedules[idx] = schedules[j]

\* C12: in every reachable state every schedule of the store, active or
\* completed, can be removed by the delete action.
C12_DeletePermittedInEitherStatus ==
    \A j \in DOMAIN schedules : DeleteOffered(j)

\* C13: a click on "선택" for the i-th shown candidate appends, in that step,
\* a schedule with status active, the candidate's start date, its
\* weekend_count and exactly its visits.
C13_SelectAppendsCandidate ==
    [][ \A i \in 1..ShownCandidates :
          (i <= Len(results) /\ Select(i)) =>
              /\ Len(schedules') = Len(schedules) + 1
              /\ SubSeq(schedules', 1, Len(schedules)) = schedules
              /\ LET added == schedules'[Len(schedules')]
                 IN /\ added.status = "active"
                    /\ added.start_date = Strftime(results[i].date)
                    /\ added.weekend_count = results[i].weekend_count
                    /\ added.visits = StoredVisits(results[i].visits) ]_vars

\* C14: no two schedules in the store have the same name.
C14_NamesUnique ==
    \A i, j \in DOMAIN schedules :
        i # j => schedules[i].name # schedules[j].name

\* the non-completed schedules of a name that share a date with the visits
SharingLines(visits, name) ==
    { i \in DOMAIN schedules :
        /\ schedules[i].name = name
        /\ NotCompleted(schedules[i])
        /\ DateStrings(schedules[i]) \cap CandidateStrings(visits) # {} }

\* C15: in the mapping of every search result each count is >= 1; against a
\* single non-completed schedule find_overlaps returns no entry when the
\* schedule shares no date with the candidate and one entry >= 1 under its
\* name when it shares one; and a name is in the mapping exactly when a
\* non-completed schedule of that name shares a date.
C15_EntriesAtLeastOne ==
    \A k \in DOMAIN results :
        LET ov == results[k].overlaps
            visits == results[k].visits
        IN /\ \A n \in DOMAIN ov : ov[n] >= 1
           /\ \A i \in DOMAIN schedules :
                 NotCompleted(schedules[i]) =>
                    LET one == find_overlaps(visits, <<schedules[i]>>)
                        name == schedules[i].name
                    IN /\ IF DateStrings(schedules[i]) \cap CandidateStrings(visits) = {}
                          THEN one = EmptyMap
                          ELSE DOMAIN one = {name} /\ one[name] >= 1
                       /\ name \in DOMAIN ov <=> SharingLines(visits, name) # {}

\* a candidate with one line it shares dates with and one it shares none with
C15_Witness ==
    \E k \in DOMAIN results, i, j \in DOMAIN schedules :
        /\ NotCompleted(schedules[i]) /\ NotCompleted(schedules[j])
        /\ schedules[i].name # schedules[j].name
        /\ DateStrings(schedules[i]) \cap CandidateStrings(results[k].visits) = {}
        /\ DateStrings(schedules[j]) \cap CandidateStrings(results[k].visits) # {}
        /\ schedules[i].name \notin DOMAIN results[k].overlaps
        /\ schedules[j].name \in DOMAIN results[k].overlaps

\* C16: a step that produces search results leaves the schedule list and
\* the template store as they were.
C16_SearchLeavesStore ==
    [][ results' # <<>> => (schedules' = schedules /\ templates' = templates) ]_vars

\* ranked candidates shown while the store holds lines they overlap with
C16_Witness ==
    /\ results # <<>>
    /\ schedules # <<>>
    /\ \E k \in DOMAIN results : results[k].overlap_total > 0

-----------------------------------------------------------------------------
(* Properties of the protocol store                                        *)

\* the day values of the protocols a template holds
HasDay(d, day) == \E i \in DOMAIN d : IntOf(d[i].key) = day

\* the protocols by template and day value, whatever the form of the keys
ByDay(protocols) ==
    UNION { { <<t, IntOf(protocols[t][i].key), protocols[t][i].title,
                 protocols[t][i].protocol>> : i \in DOMAIN protocols[t] } :
            t \in DOMAIN protocols }

OneProtocolPerDay ==
    \A t \in DOMAIN load_protocols :
        \A i, j \in DOMAIN load_protocols[t] :
            i # j => IntOf(load_protocols[t][i].key) # IntOf(load_protocols[t][j].key)

AddExistingRejected ==
    \A t \in DOMAIN templates, day \in ProtocolDays, title \in NewTitles :
        (AddProtocol(t, day, title) /\ HasDay(PageProtocols(t)[t], day)) =>
            /\ ByDay(Loaded(protocol_file')) = ByDay(load_protocols)
            /\ protocol_message'.kind \in {"exists", "no title"}

\* C18: from a store with no protocol file, a template holds at most one
\* protocol per day value, and an addition for a day that has one (the
\* default days 0, 3 and 7 among them) is refused and leaves the protocols
\* as they were.
C18_OneProtocolPerDay == []OneProtocolPerDay /\ [][AddExistingRejected]_vars

\* the addition for default day 3 was refused; day 0 was deleted and added anew
C18_Witness ==
    /\ protocol_file # None
    /\ protocol_message = Message("exists", 3)
    /\ \E i \in DOMAIN protocol_file["Organoid"] :
          /\ protocol_file["Organoid"][i].key = StrKey(3)
          /\ protocol_file["Organoid"][i].title = "Day 3"
    /\ \E i \in DOMAIN protocol_file["Organoid"] :
          /\ protocol_file["Organoid"][i].key = StrKey(0)
          /\ protocol_file["Organoid"][i].title = "T"

-----------------------------------------------------------------------------
(* Properties of the template store                                        *)

WellFormed(period) ==
    /\ period.start_day >= 0
    /\ period.end_day >= period.start_day
    /\ period.interval >= 1

\* C19: every period of every template in the template store has
\* start_day >= 0, end_day >= start_day and interval >= 1.
C19_PeriodsWellFormed ==
    \A name \in DOMAIN templates :
        \A i \in DOMAIN templates[name] : WellFormed(templates[name][i])

-----------------------------------------------------------------------------
(* Properties of the calendar page                                         *)

\* the position in schedules of the idx-th schedule of active_schedules
ActivePosition(idx) ==
    CHOOSE j \in DOMAIN schedules :
        /\ NotCompleted(schedules[j])
        /\ Cardinality({ k \in 1..j : NotCompleted(schedules[k]) }) = idx

\* C20: a save from the calendar writes protocol day, memo and people to the
\* visit that was displayed, the visit_idx-th visit of the schedule_idx-th
\* active schedule, and leaves every other visit of every schedule as it was.
C20_SaveWritesDisplayedVisit ==
    [][ \A si \in 1..MaxSchedules, vi \in 1..Len(MiniTemplate) + 1,
           y \in CalendarYears, m \in CalendarMonths,
           key \in {None} \cup {StrKey(d) : d \in ProtocolDays}, memo \in Memos,
           names \in {<<>>} \cup {<<n>> : n \in PersonNames} :
          SaveEdit(si, vi, y, m, key, memo, names) =>
              schedules' = WriteAt(ActivePosition(si), vi, key, memo, names) ]_vars

-----------------------------------------------------------------------------
(* Properties of concurrent sessions                                       *)

\* session s ends a run in this step
Finishes(s) == sessions[s].pc = "loaded" /\ sessions'[s].pc = "idle"

\* what the store holds now and the list session s loaded did not hold: the
\* records other sessions committed since s loaded
CommittedSince(s) == Range(schedules) \ Range(sessions[s].schedules)

\* C17: a session that writes puts its own list in place of the store, so
\* every record another session committed since this session loaded is gone
\* after the write (unless the writer committed the very same record); an
\* interleaving of two sessions therefore loses a committed change.
C17_WriteDropsChangesSinceLoad ==
    [][ \A s \in Sessions :
          (Finishes(s) /\ schedules' # schedules) =>
              \A r \in CommittedSince(s) :
                  r \notin Range(schedules') \/ r = sessions'[s].committed ]_vars

\* both sessions have written; the line one of them added is not in the
\* store, the line the other added is
C17_Witness ==
    \E s, t \in Sessions :
        /\ s # t
        /\ sessions[s].pc = "idle" /\ sessions[t].pc = "idle"
        /\ sessions[s].committed # None /\ sessions[t].committed # None
        /\ sessions[s].committed.status = "active"
        /\ \A i \in DOMAIN schedules : schedules[i].name # sessions[s].committed.name
        /\ sessions[t].committed \in Range(schedules)

-----------------------------------------------------------------------------
(* Properties of the random assignment                                     *)

\* assigned_people missing or empty
LacksPeople(visit) ==
    "assigned_people" \notin DOMAIN visit \/ visit.assigned_people = <<>>

\* the visits a random assignment over [assign_start, assign_end] is to fill
ToFill(i, j, assign_start, assign_end) ==
    /\ schedules[i].status # "completed"
    /\ assign_start <= Strptime(schedules[i].visits[j].date)
    /\ Strptime(schedules[i].visits[j].date) <= assign_end
    /\ LacksPeople(schedules[i].visits[j])

Registered == { people[i] : i \in DOMAIN people }

\* names is min(2, number of people) distinct registered names
TwoRegistered(names) ==
    /\ Len(names) = (IF Len(people) < 2 THEN Len(people) ELSE 2)
    /\ \A k \in DOMAIN names : names[k] \in Registered
    /\ \A k, l \in DOMAIN names : k # l => names[k] # names[l]

\* C21: a random assignment changes assigned_people only for the visits of
\* non-completed schedules dated in [start, end] whose assigned_people is
\* missing or empty, gives each of them min(2, number of people) distinct
\* registered names, and leaves every other visit, every other field and
\* the people list unchanged.
C21_AssignFillsOnlyUnassigned ==
    [][ \A assign_start \in AssignDates, assign_end \in AssignDates :
          RandomAssign(assign_start, assign_end) =>
            /\ people' = people
            /\ Len(schedules') = Len(schedules)
            /\ \A i \in DOMAIN schedules :
                 /\ [schedules'[i] EXCEPT !.visits = schedules[i].visits] = schedules[i]
                 /\ Len(schedules'[i].visits) = Len(schedules[i].visits)
                 /\ \A j \in DOMAIN schedules[i].visits :
                      LET old == schedules[i].visits[j]
                          new == schedules'[i].visits[j]
                      IN IF ToFill(i, j, assign_start, assign_end)
                         THEN /\ DOMAIN new = DOMAIN old \cup {"assigned_people"}
                              /\ TwoRegistered(new.assigned_people)
                              /\ \A f \in DOMAIN old \ {"assigned_people"} :
                                    new[f] = old[f]
                         ELSE new = old ]_vars

\* a random assignment has filled a visit with two names, next to a visit
\* that keeps the one name given in the calendar and a visit out of range
\* that has no assignment
C21_Witness ==
    \E i, k, m \in DOMAIN schedules :
        /\ \E j \in DOMAIN schedules[i].visits :
              /\ ~LacksPeople(schedules[i].visits[j])
              /\ Len(schedules[i].visits[j].assigned_people) = 2
        /\ \E j \in DOMAIN schedules[k].visits :
              /\ ~LacksPeople(schedules[k].visits[j])
              /\ schedules[k].visits[j].assigned_people = <<"P">>
        /\ \E j \in DOMAIN schedules[m].visits :
              "assigned_people" \notin DOMAIN schedules[m].visits[j]

-----------------------------------------------------------------------------
(* Properties of the cached weekend count                                  *)

\* the number of visits of the schedule whose is_weekend is true
WeekendVisits(schedule) ==
    Cardinality({ j \in DOMAIN schedule.visits : schedule.visits[j].is_weekend })

CacheAgrees ==
    \A i \in DOMAIN schedules : schedules[i].weekend_count = WeekendVisits(schedules[i])

\* a schedule in the store keeps weekend_count and, visit by visit, date
\* and is_weekend
CacheInputsKept ==
    \A i \in DOMAIN schedules :
        /\ i \in DOMAIN schedules'
        /\ schedules'[i].weekend_count = schedules[i].weekend_count
        /\ DOMAIN schedules'[i].visits = DOMAIN schedules[i].visits
        /\ \A j \in DOMAIN schedules[i].visits :
              /\ schedules'[i].visits[j].date = schedules[i].visits[j].date
              /\ schedules'[i].visits[j].is_weekend = schedules[i].visits[j].is_weekend

\* C22: in every reachable store, weekend_count of each schedule is the
\* number of its visits with is_weekend true: creation sets it from the
\* generated visits, and completion, calendar edit and random assignment
\* change neither weekend_count nor a visit's date or is_weekend.
C22_WeekendCountMatchesVisits == []CacheAgrees /\ [][CacheInputsKept]_vars

\* a completed line with no weekend visit and a visit edited in the
\* calendar, next to a line with one weekend visit and a visit assigned at
\* random
C22_Witness ==
    \E i, k \in DOMAIN schedules :
        /\ schedules[i].status = "completed"
        /\ schedules[i].weekend_count = 0
        /\ \E j \in DOMAIN schedules[i].visits : "memo" \in DOMAIN schedules[i].visits[j]
        /\ schedules[k].weekend_count = 1
        /\ \E j \in DOMAIN schedules[k].visits :
              /\ "assigned_people" \in DOMAIN schedules[k].visits[j]
              /\ Len(schedules[k].visits[j].assigned_people) = 2

-----------------------------------------------------------------------------
(* Properties of the manual-date mode                                      *)

\* the record carries what the preview holds: name, template, start date
\* and, visit by visit, day, date and weekend flag
Carries(record, preview) ==
    /\ record.name = preview.line_name
    /\ record.template = preview.template
    /\ Strptime(record.start_date) = preview.start_date
    /\ Len(record.visits) = Len(preview.visits)
    /\ \A i \in DOMAIN preview.visits :
          /\ record.visits[i].day = preview.visits[i].day
          /\ Strptime(record.visits[i].date) = preview.visits[i].date
          /\ record.visits[i].is_weekend = preview.visits[i].is_weekend

\* the step appends one record, made from the preview, and clears the preview
CommitsPreview ==
    /\ preview_schedule # None
    /\ Len(schedules') = Len(schedules) + 1
    /\ SubSeq(schedules', 1, Len(schedules)) = schedules
    /\ Carries(schedules'[Len(schedules')], preview_schedule)
    /\ preview_schedule' = None

ManualStep ==
    /\ Len(schedules') > Len(schedules) => CommitsPreview
    /\ ConfirmManual => CommitsPreview
    /\ CancelManual => (preview_schedule' = None /\ schedules' = schedules)
    /\ (preview_schedule # None /\ preview_schedule' = None) =>
          (CommitsPreview \/ schedules' = schedules)

\* C23: the store grows only by a confirm while a preview exists; the record
\* appended carries the preview's name, template, start date and visits;
\* confirm and cancel clear the preview and cancel leaves the store as it
\* was, so a preview is committed at most once.
C23_PreviewCommittedOnce == [][ManualStep]_vars

\* two previews were made and each was committed: two lines of different
\* names in the store and no preview left
C23_Witness ==
    /\ Len(schedules) = 2
    /\ schedules[1].name # schedules[2].name
    /\ preview_schedule = None

====
